---------------------------- MODULE Spec2Model ----------------------------
(***************************************************************************)
(* A model of devp2p/crypto.py: the ECIES scheme of class ECCx, the        *)
(* concatenation KDF, key construction, and the recoverable-signature      *)
(* codec with ecdsa_verify.                                                *)
(*                                                                         *)
(* Byte strings are sequences over 0..255 and keep the lengths of the      *)
(* program (64-byte public keys, 16-byte IVs, 32-byte digests and tags,    *)
(* 113 bytes of ECIES overhead).  The primitives the program imports       *)
(* (hashlib, pyelliptic, coincurve, bitcoin) are replaced by small         *)
(* deterministic stand-ins with the same input and output shapes:          *)
(*   - sha256 is a 32-byte checksum in which flipping one bit of the       *)
(*     input always changes the digest;                                    *)
(*   - the curve is the additive group of integers modulo 251, so that     *)
(*     ECDH is symmetric; a point is valid when it satisfies CurveY;       *)
(*   - AES-128-CTR is the XOR of the data with a keystream that depends    *)
(*     on key and IV.                                                      *)
(***************************************************************************)
EXTENDS Integers, Sequences, FiniteSets, TLC

VARIABLES
    wire,      \* the ECIES message last returned by ecies_encrypt (<<>>: none)
    sent,      \* the arguments and random draws of that ecies_encrypt call
    dec,       \* the last ecies_decrypt call: its arguments and its outcome
    kdf,       \* the last eciesKDF call: its arguments and its result
    sig,       \* the last call of the signature codec or of verify
    kg         \* the ECCx constructor: its arguments, loop position and key

vars == <<wire, sent, dec, kdf, sig, kg>>

---------------------------------------------------------------------------
(* Bounds of the model *)

\* the longest plaintext handed to ecies_encrypt
MaxPlainLen == 2

---------------------------------------------------------------------------
(* Byte strings *)

Min(a, b) == IF a < b THEN a ELSE b
Max(a, b) == IF a > b THEN a ELSE b

Zeros(n) == [i \in 1..n |-> 0]

\* Python's s[lo:hi] on a byte string: 0-based, negative indices count from
\* the end, out-of-range indices are clamped, an empty range gives "".
PyIndex(i, n) == IF i < 0 THEN Max(n + i, 0) ELSE Min(i, n)
PySlice(s, lo, hi) == SubSeq(s, PyIndex(lo, Len(s)) + 1, PyIndex(hi, Len(s)))

\* s[lo:] and s[:hi]
PyFrom(s, lo) == SubSeq(s, PyIndex(lo, Len(s)) + 1, Len(s))
PyUpto(s, hi) == SubSeq(s, 1, PyIndex(hi, Len(s)))

RECURSIVE BitXor(_, _)
BitXor(a, b) ==
    IF a = 0 THEN b
    ELSE IF b = 0 THEN a
    ELSE ((a + b) % 2) + 2 * BitXor(a \div 2, b \div 2)

RECURSIVE Pow2(_)
Pow2(k) == IF k = 0 THEN 1 ELSE 2 * Pow2(k - 1)

\* the byte string s with bit `bit` of the byte at 0-based position pos flipped
FlipBit(s, pos, bit) == [s EXCEPT ![pos + 1] = BitXor(@, Pow2(bit))]

\* struct.pack('>I', n)
RECURSIVE BigEndian(_, _)
BigEndian(n, width) ==
    IF width = 0 THEN <<>>
    ELSE Append(BigEndian(n \div 256, width - 1), n % 256)

---------------------------------------------------------------------------
(* Stand-ins for the imported primitives *)

\* Two sums over the bytes lo..hi of x, modulo 256: a plain one and a
\* position-weighted one.  Flipping one bit of x changes the first by a power
\* of two below 256.
RECURSIVE ByteSum(_, _, _)
ByteSum(x, lo, hi) ==
    IF lo > hi THEN 0
    ELSE IF lo = hi THEN (x[lo] + 1) % 256
    ELSE LET mid == (lo + hi) \div 2
         IN  (ByteSum(x, lo, mid) + ByteSum(x, mid + 1, hi)) % 256

RECURSIVE WeightedSum(_, _, _)
WeightedSum(x, lo, hi) ==
    IF lo > hi THEN 0
    ELSE IF lo = hi THEN (lo * (x[lo] + 1)) % 256
    ELSE LET mid == (lo + hi) \div 2
         IN  (WeightedSum(x, lo, mid) + WeightedSum(x, mid + 1, hi)) % 256

\* hashlib.sha256(x).digest(): 32 bytes
sha256(x) ==
    LET a == ByteSum(x, 1, Len(x))
        b == WeightedSum(x, 1, Len(x))
    IN  [j \in 1..32 |->
            IF j = 1 THEN a
            ELSE IF j = 2 THEN b
            ELSE (a * j + b * (j + 1) + j * j + Len(x)) % 256]

\* pyelliptic.hmac_sha256(k, m): 32 bytes
hmac_sha256(k, m) == sha256(k \o m)

\* pyelliptic.Cipher(key, iv, do, 'aes-128-ctr').ciphering(data): CTR mode is
\* the XOR with the keystream in both directions (do = 1 and do = 0).
ciphering(key, iv, data) ==
    LET ks == sha256(key \o iv)
    IN  [i \in 1..Len(data) |-> BitXor(data[i], ks[((i - 1) % 32) + 1])]

\* OpenSSL's BN_bin2bn on a coordinate or scalar: the big-endian value, where
\* every value of 256 or more is reported as 256 (outside the field).
BnValue(b) ==
    IF Len(b) = 0 THEN 0
    ELSE IF \E i \in 1..(Len(b) - 1) : b[i] # 0 THEN 256
    ELSE b[Len(b)]

\* the curve equation: the Y coordinate that belongs to X
CurveY(x) == ((x * x) % 251) + 1

\* EC_KEY_check_key on the point (pubkey_x, pubkey_y)
ValidPoint(pubkey_x, pubkey_y) ==
    /\ BnValue(pubkey_x) \in 1..250
    /\ BnValue(pubkey_y) = CurveY(BnValue(pubkey_x))

\* the 32-byte encoding of a scalar or coordinate below 256
Bytes32(n) == Zeros(31) \o <<n>>

\* bitcoin.get_privkey_format accepts the private key
PrivFormatOk(raw_privkey) ==
    Len(raw_privkey) = 32 /\ BnValue(raw_privkey) \in 1..250

\* privtopub(raw_privkey): the 64-byte X || Y of scalar * G, with G = 3
privtopub(raw_privkey) ==
    LET x == (BnValue(raw_privkey) * 3) % 251
    IN  Bytes32(x) \o Bytes32(CurveY(x))

\* pyelliptic's raw_get_ecdh_key(pubkey_x, pubkey_y) with private key privkey:
\* the 32-byte shared X coordinate, or the library's exception for a point
\* that fails its checks.
raw_get_ecdh_key(privkey, pubkey_x, pubkey_y) ==
    IF ValidPoint(pubkey_x, pubkey_y)
    THEN [ok |-> TRUE,
          key |-> Bytes32((BnValue(privkey) * BnValue(pubkey_x)) % 251)]
    ELSE [ok |-> FALSE, key |-> <<>>]

---------------------------------------------------------------------------
(* eciesKDF *)

\* the body of eciesKDF: the loop "while counter <= reps", and the slice
RECURSIVE KdfLoop(_, _, _, _)
KdfLoop(counter, reps, key_material, key) ==
    IF counter <= reps
    THEN KdfLoop(counter + 1, reps, key_material,
                 key \o sha256(BigEndian(counter + 1, 4) \o key_material \o <<>>))
    ELSE key

\* eciesKDF(key_material, key_len).  reps is compared with the integer
\* counter only, so the integer quotient decides the loop as the true
\* quotient does.
eciesKDF(key_material, key_len) ==
    LET hash_blocksize == 64
        reps == ((key_len + 7) * 8) \div (hash_blocksize * 8)
    IN  PyUpto(KdfLoop(0, reps, key_material, <<>>), key_len)

---------------------------------------------------------------------------
(* ECCx.ecies_encrypt and ECCx.ecies_decrypt *)

\* class ECIESDecryptionError, and the other ways a call can end
Statuses == {"ok", "ECIESDecryptionError", "AssertionError", "Exception"}

ecies_encrypt_overhead_length == 113

\* how a call ends: its status, the value it returns, the primitives it
\* invoked in order, and the byte string it handed to hmac_sha256
Outcome(status, out, events, mac_data) ==
    [status |-> status, out |-> out, events |-> events, mac_data |-> mac_data]

\* a constant-time comparison that stops after the first 16 bytes
equals_prefix(a, b) == PyUpto(a, 16) = PyUpto(b, 16)

\* pyelliptic.equals(a, b), as ecies_decrypt calls it on the two tags
equals(a, b) == a = b

\* the MAC input of ecies_encrypt, widened to start at the ephemeral key
encrypt_mac_input_with_key(msg, shared_mac_data) ==
    PyFrom(msg, 1) \o shared_mac_data

\* the MAC input of ecies_encrypt: msg[1 + 64:] + str_to_bytes(shared_mac_data)
encrypt_mac_input(msg, shared_mac_data) ==
    PyFrom(msg, 1 + 64) \o shared_mac_data

\* the MAC input of ecies_decrypt: data[1 + 64:- 32] + shared_mac_data
decrypt_mac_input(data, shared_mac_data) ==
    PySlice(data, 1 + 64, -32) \o shared_mac_data

\* the IV of ecies_decrypt, read one byte too far into the message
decrypt_iv_shifted(data, blocksize) ==
    PySlice(data, 1 + 64 + 1, 1 + 64 + 1 + blocksize)

\* the IV of ecies_decrypt: data[1 + 64:1 + 64 + blocksize]
decrypt_iv(data, blocksize) == PySlice(data, 1 + 64, 1 + 64 + blocksize)

\* ecies_encrypt(data, raw_pubkey, shared_mac_data), where ephem_priv is the
\* private key of ephem = ECCx() and iv the result of Cipher.gen_IV
ecies_encrypt(data, raw_pubkey, shared_mac_data, ephem_priv, iv) ==
    LET ecdh == raw_get_ecdh_key(ephem_priv, PyUpto(raw_pubkey, 32),
                                 PyFrom(raw_pubkey, 32))
        key_material == ecdh.key
        key == eciesKDF(key_material, 32)
        key_enc == PyUpto(key, 16)
        key_mac == sha256(PyFrom(key, 16))
        ephem_pubkey == privtopub(ephem_priv)
        ciphertext == ciphering(key_enc, iv, data)
        msg == <<4>> \o ephem_pubkey \o iv \o ciphertext
        mac_data == encrypt_mac_input(msg, shared_mac_data)
        tag == hmac_sha256(key_mac, mac_data)
        full == msg \o tag
    IN  IF ~ecdh.ok THEN Outcome("Exception", <<>>, <<"ecdh">>, <<>>)
        ELSE IF Len(key_material) # 32 \/ Len(key) # 32 \/ Len(key_mac) # 32
        THEN Outcome("AssertionError", <<>>, <<"ecdh", "kdf">>, <<>>)
        ELSE IF Len(iv) # 16 \/ Len(ciphertext) # Len(data)
        THEN Outcome("AssertionError", <<>>, <<"ecdh", "kdf", "cipher">>, <<>>)
        ELSE IF Len(tag) # 32
                \/ Len(full) # 1 + 64 + 16 + 32 + Len(data)
                \/ Len(full) - ecies_encrypt_overhead_length # Len(data)
        THEN Outcome("AssertionError", <<>>,
                     <<"ecdh", "kdf", "cipher", "hmac">>, mac_data)
        ELSE Outcome("ok", full, <<"ecdh", "kdf", "cipher", "hmac">>, mac_data)

\* ecies_decrypt with steps 2 and 3 exchanged: it decrypts, then verifies
ecies_decrypt_cipher_first(privkey, data, shared_mac_data) ==
    LET shared == PySlice(data, 1, 1 + 64)
        ecdh == raw_get_ecdh_key(privkey, PyUpto(shared, 32), PyFrom(shared, 32))
        key == eciesKDF(ecdh.key, 32)
        key_enc == PyUpto(key, 16)
        key_mac == sha256(PyFrom(key, 16))
        tag == PyFrom(data, -32)
        mac_data == decrypt_mac_input(data, shared_mac_data)
        iv == decrypt_iv(data, 16)
        ciphertext == PySlice(data, 1 + 64 + 16, -32)
    IN  IF PyUpto(data, 1) # <<4>>
        THEN Outcome("ECIESDecryptionError", <<>>, <<>>, <<>>)
        ELSE IF ~ecdh.ok THEN Outcome("Exception", <<>>, <<"ecdh">>, <<>>)
        ELSE IF Len(tag) # 32 \/ Len(iv) # 16
        THEN Outcome("AssertionError", <<>>, <<"ecdh", "kdf">>, <<>>)
        ELSE IF ~equals(hmac_sha256(key_mac, mac_data), tag)
        THEN Outcome("ECIESDecryptionError", <<>>,
                     <<"ecdh", "kdf", "cipher", "hmac", "tags_differ">>, mac_data)
        ELSE Outcome("ok", ciphering(key_enc, iv, ciphertext),
                     <<"ecdh", "kdf", "cipher", "hmac", "tags_equal">>, mac_data)

\* self.ecies_decrypt(data, shared_mac_data), where privkey is self.raw_privkey
ecies_decrypt(privkey, data, shared_mac_data) ==
    LET shared == PySlice(data, 1, 1 + 64)
        ecdh == raw_get_ecdh_key(privkey, PyUpto(shared, 32), PyFrom(shared, 32))
        key_material == ecdh.key
        key == eciesKDF(key_material, 32)
        key_enc == PyUpto(key, 16)
        key_mac == sha256(PyFrom(key, 16))
        tag == PyFrom(data, -32)
        mac_data == decrypt_mac_input(data, shared_mac_data)
        blocksize == 16
        iv == decrypt_iv(data, blocksize)
        ciphertext == PySlice(data, 1 + 64 + blocksize, -32)
    IN  IF PyUpto(data, 1) # <<4>>
        THEN Outcome("ECIESDecryptionError", <<>>, <<>>, <<>>)
        ELSE IF ~ecdh.ok THEN Outcome("Exception", <<>>, <<"ecdh">>, <<>>)
        ELSE IF Len(key_material) # 32 \/ Len(key) # 32 \/ Len(key_mac) # 32
        THEN Outcome("AssertionError", <<>>, <<"ecdh", "kdf">>, <<>>)
        ELSE IF Len(tag) # 32
        THEN Outcome("AssertionError", <<>>, <<"ecdh", "kdf">>, <<>>)
        ELSE IF ~equals(hmac_sha256(key_mac, mac_data), tag)
        THEN Outcome("ECIESDecryptionError", <<>>,
                     <<"ecdh", "kdf", "hmac", "tags_differ">>, mac_data)
        ELSE IF Len(iv) # 16
        THEN Outcome("AssertionError", <<>>,
                     <<"ecdh", "kdf", "hmac", "tags_equal">>, mac_data)
        ELSE IF 1 + Len(shared) + Len(iv) + Len(ciphertext) + Len(tag) # Len(data)
        THEN Outcome("AssertionError", <<>>,
                     <<"ecdh", "kdf", "hmac", "tags_equal">>, mac_data)
        ELSE Outcome("ok", ciphering(key_enc, iv, ciphertext),
                     <<"ecdh", "kdf", "hmac", "tags_equal", "cipher">>, mac_data)

---------------------------------------------------------------------------
(* The inputs of eciesKDF *)

\* the longest key requested from eciesKDF
MaxKeyLen == 70

\* ECDH results handed to eciesKDF
KdfSecrets == {Bytes32(35), Bytes32(200)}

NoKdf == [called |-> FALSE, key_material |-> <<>>, key_len |-> 0, out |-> <<>>]

\* a call eciesKDF(key_material, key_len)
Kdf ==
    /\ \E s \in KdfSecrets, n \in 0..MaxKeyLen :
        kdf' = [called |-> TRUE, key_material |-> s, key_len |-> n,
                out |-> eciesKDF(s, n)]
    /\ UNCHANGED <<wire, sent, dec, sig, kg>>

---------------------------------------------------------------------------
(* The signature codec: lzpad32, _encode_sig, _decode_sig *)

(* r and s are 256-bit integers.  An integer is written here as the        *)
(* sequence of its base-65536 digits, least significant first and without  *)
(* leading zero digits (0 is <<>>), so that bitcoin.encode and             *)
(* bitcoin.decode are computed by division and multiplication as in the    *)
(* library.                                                                *)

RECURSIVE Normalize(_)
Normalize(n) ==
    IF n = <<>> \/ n[Len(n)] # 0 THEN n ELSE Normalize(SubSeq(n, 1, Len(n) - 1))

\* <<n \div 256, n % 256>> for the digits 1..i of n, with rem carried down
RECURSIVE DivStep(_, _, _)
DivStep(n, i, rem) ==
    IF i = 0 THEN <<<<>>, rem>>
    ELSE LET cur == rem * 65536 + n[i]
             lower == DivStep(n, i - 1, cur % 256)
         IN  <<Append(lower[1], cur \div 256), lower[2]>>

\* n * 256 + carry, from digit i on
RECURSIVE MulAddStep(_, _, _)
MulAddStep(n, i, carry) ==
    IF i > Len(n) THEN (IF carry > 0 THEN <<carry>> ELSE <<>>)
    ELSE LET cur == n[i] * 256 + carry
         IN  <<cur % 65536>> \o MulAddStep(n, i + 1, cur \div 65536)

\* bitcoin.encode(val, 256): the big-endian bytes of val, none for 0
RECURSIVE encode(_)
encode(val) ==
    IF val = <<>> THEN <<>>
    ELSE LET dm == DivStep(val, Len(val), 0)
         IN  Append(encode(Normalize(dm[1])), dm[2])

\* bitcoin.decode(string, 256) after the first i characters of string:
\* result = result * 256 + digit for each of them, starting from 0
RECURSIVE decode(_, _)
decode(string, i) ==
    IF i = 0 THEN <<>>
    ELSE MulAddStep(decode(string, i - 1), 1, string[i])

\* lzpad32 padding on the right
lzpad32_right(x) == x \o Zeros(Max(32 - Len(x), 0))

\* lzpad32(x)
lzpad32(x) == Zeros(Max(32 - Len(x), 0)) \o x

SigOutcome(status, data, v, r, s, ok) ==
    [status |-> status, data |-> data, v |-> v, r |-> r, s |-> s, ok |-> ok]

\* _encode_sig(v, r, s)
encode_sig(v, r, s) ==
    IF v \notin {27, 28}
    THEN SigOutcome("AssertionError", <<>>, 0, <<>>, <<>>, FALSE)
    ELSE LET vb == <<v - 27>>
             rb == encode(r)
             sb == encode(s)
         IN  SigOutcome("ok", lzpad32(rb) \o lzpad32(sb) \o vb, 0, <<>>, <<>>, FALSE)

\* _decode_sig(sig): sig[64] raises IndexError on a shorter string
decode_sig(sg) ==
    IF Len(sg) < 65
    THEN SigOutcome("IndexError", <<>>, 0, <<>>, <<>>, FALSE)
    ELSE SigOutcome("ok", <<>>, sg[64 + 1] + 27,
                    decode(PySlice(sg, 0, 32), 32),
                    decode(PySlice(sg, 32, 64), 32), FALSE)

---------------------------------------------------------------------------
(* ecdsa_sign, ecdsa_verify and ECCx.verify *)

\* the inverse of a nonzero scalar modulo the group order 251
Inv(a) == CHOOSE b \in 1..250 : (a * b) % 251 = 1

\* the integer a 32-byte message digest stands for in a signature
DigestValue(message) == WeightedSum(message, 1, Len(message)) % 251

\* ecdsa_sign(msghash, privkey): coincurve's sign_recoverable, giving
\* r || s || recovery id, with the deterministic nonce k
ecdsa_sign(msghash, privkey) ==
    LET d == BnValue(privkey)
        z == DigestValue(msghash)
        k == CHOOSE n \in 1..250 : (z + ((3 * n) % 251) * d) % 251 # 0
        r == (3 * k) % 251
        s == (Inv(k) * (z + r * d)) % 251
    IN  Bytes32(r) \o Bytes32(s) \o <<r % 2>>

\* coincurve's PublicKey.from_signature_and_message(signature, message,
\* hasher=None): the recovered point, or the library's error
from_signature_and_message(signature, message) ==
    LET r == BnValue(PySlice(signature, 0, 32))
        s == BnValue(PySlice(signature, 32, 64))
        recid == signature[65]
        z == DigestValue(message)
        big_r == IF r % 2 = recid THEN r ELSE 251 - r
        q == (Inv(r) * (s * big_r + 251 * 251 - z * 3)) % 251
    IN  IF Len(signature) # 65 \/ Len(message) # 32
        THEN [status |-> "ValueError", point |-> 0]
        ELSE IF recid > 3 \/ r > 250 \/ s > 250
        THEN [status |-> "ValueError", point |-> 0]
        ELSE IF r = 0 \/ s = 0 \/ recid > 1
        THEN [status |-> "Exception", point |-> 0]
        ELSE IF q = 0
        THEN [status |-> "Exception", point |-> 0]
        ELSE [status |-> "ok", point |-> q]

\* ecdsa_verify(pubkey, signature, message)
ecdsa_verify(pubkey, signature, message) ==
    IF Len(pubkey) # 64
    THEN SigOutcome("AssertionError", <<>>, 0, <<>>, <<>>, FALSE)
    ELSE LET pk == from_signature_and_message(signature, message)
         IN  IF pk.status # "ok"
             THEN SigOutcome(pk.status, <<>>, 0, <<>>, <<>>, FALSE)
             ELSE SigOutcome("ok", <<>>, 0, <<>>, <<>>,
                             (<<4>> \o Bytes32(pk.point)
                                  \o Bytes32(CurveY(pk.point)))
                                 = (<<4>> \o pubkey))

\* ECCx.verify(signature, message), where raw_pubkey is self.raw_pubkey
ECCx_verify(raw_pubkey, signature, message) ==
    IF Len(signature) # 65
    THEN SigOutcome("AssertionError", <<>>, 0, <<>>, <<>>, FALSE)
    ELSE ecdsa_verify(raw_pubkey, signature, message)

---------------------------------------------------------------------------
(* The inputs of the signature calls *)

\* 0, 1, 255, 256, a three-digit value, 2^255 and 2^256 - 1
BigVals ==
    { <<>>, <<1>>, <<255>>, <<256>>, <<4660, 0, 43981>>,
      [i \in 1..16 |-> IF i = 16 THEN 32768 ELSE 0],
      [i \in 1..16 |-> 65535] }

\* the 32-byte halves and the last byte of the strings handed to _decode_sig
RawHalves == {Zeros(32), Bytes32(77), [i \in 1..32 |-> 255]}
RecBytes == {0, 1, 2, 5, 228, 255}

\* message digests, signers' scalars, and the public keys handed to verify
Digests == {Bytes32(1), [i \in 1..32 |-> i]}
SignerScalars == {5, 9}
VerifyPubs ==
    {privtopub(Bytes32(d)) : d \in SignerScalars}
        \cup {PyUpto(privtopub(Bytes32(5)), 63)}

\* the signatures handed to verify for a digest: signatures of the signers,
\* one of them cut to 64 bytes, with recovery id 2 and 4, and with r = 0
VerifySigs(message) ==
    LET good == {ecdsa_sign(message, Bytes32(d)) : d \in SignerScalars}
        one == ecdsa_sign(message, Bytes32(5))
    IN  good \cup { PyUpto(one, 64),
                    [one EXCEPT ![65] = 2],
                    [one EXCEPT ![65] = 4],
                    Zeros(32) \o PySlice(one, 32, 65) }

NoSig == [op |-> "none", v |-> 0, r |-> <<>>, s |-> <<>>, data |-> <<>>,
          pub |-> <<>>, msg |-> <<>>,
          res |-> SigOutcome("none", <<>>, 0, <<>>, <<>>, FALSE)]

\* _decode_sig(_encode_sig(v, r, s))
EncodeDecode ==
    /\ \E v \in 26..29, r \in BigVals, s \in BigVals :
        LET enc == encode_sig(v, r, s)
        IN  sig' = [NoSig EXCEPT !.op = "encode_decode", !.v = v, !.r = r,
                                 !.s = s, !.data = enc.data,
                                 !.res = IF enc.status = "ok"
                                         THEN decode_sig(enc.data) ELSE enc]
    /\ UNCHANGED <<wire, sent, dec, kdf, kg>>

\* _decode_sig on a string that arrives from outside
Decode ==
    /\ \E rb \in RawHalves, sb \in RawHalves, vb \in RecBytes :
        sig' = [NoSig EXCEPT !.op = "decode", !.data = rb \o sb \o <<vb>>,
                             !.res = decode_sig(rb \o sb \o <<vb>>)]
    /\ UNCHANGED <<wire, sent, dec, kdf, kg>>

\* ecdsa_verify(pubkey, signature, message)
VerifyFunction ==
    /\ \E message \in Digests, pubkey \in VerifyPubs :
        \E signature \in VerifySigs(message) :
            sig' = [NoSig EXCEPT !.op = "ecdsa_verify", !.data = signature,
                                 !.pub = pubkey, !.msg = message,
                                 !.res = ecdsa_verify(pubkey, signature, message)]
    /\ UNCHANGED <<wire, sent, dec, kdf, kg>>

\* ECCx(raw_pubkey=pubkey).verify(signature, message)
VerifyMethod ==
    /\ \E message \in Digests, d \in SignerScalars :
        \E signature \in VerifySigs(message) :
            sig' = [NoSig EXCEPT !.op = "ECCx.verify", !.data = signature,
                                 !.pub = privtopub(Bytes32(d)), !.msg = message,
                                 !.res = ECCx_verify(privtopub(Bytes32(d)),
                                                     signature, message)]
    /\ UNCHANGED <<wire, sent, dec, kdf, kg>>

---------------------------------------------------------------------------
(* ECCx.__init__ *)

\* the largest private scalar the key generator draws
MaxGenScalar == 100

\* what pyelliptic's key generation can hand back: a private key and the
\* coordinates of its public key.  Besides the well-formed keys there are a
\* private key one byte short, a private key that fails the format check,
\* and a public key one byte short.
GenDraws ==
    {[priv |-> Bytes32(d), pub |-> privtopub(Bytes32(d))] : d \in 1..MaxGenScalar}
        \cup { [priv |-> Zeros(30) \o <<7>>, pub |-> privtopub(Bytes32(7))],
               [priv |-> Bytes32(0), pub |-> privtopub(Bytes32(0))],
               [priv |-> Bytes32(11), pub |-> PyUpto(privtopub(Bytes32(11)), 63)] }

\* the key material a caller passes (<<>> is None)
ArgPrivs == {<<>>, Bytes32(5), Bytes32(0)}
ArgPubs == {<<>>, privtopub(Bytes32(9)), PyUpto(privtopub(Bytes32(9)), 63),
            Bytes32(9) \o Bytes32(9)}

KgState(pc, raw_privkey, raw_pubkey, privkey, pubkey, error) ==
    [pc |-> pc, raw_privkey |-> raw_privkey, raw_pubkey |-> raw_pubkey,
     privkey |-> privkey, pubkey |-> pubkey, error |-> error]

NoKg == KgState("idle", <<>>, <<>>, <<>>, <<>>, "")

\* lines 34-41 of __init__: the arguments are checked and the public key of
\* a given private key is computed
init_arguments(raw_privkey, raw_pubkey) ==
    IF raw_privkey # <<>> /\ raw_pubkey # <<>>
    THEN KgState("raised", raw_privkey, raw_pubkey, <<>>, <<>>, "AssertionError")
    ELSE LET pub == IF raw_privkey # <<>> THEN privtopub(raw_privkey)
                    ELSE raw_pubkey
         IN  IF pub # <<>> /\ Len(pub) # 64
             THEN KgState("raised", raw_privkey, pub, <<>>, <<>>, "AssertionError")
             ELSE KgState("loop", raw_privkey, pub, <<>>, <<>>, "")

\* one pass of the loop "while True" of __init__ (lines 42-58): with key
\* material pyelliptic.ECC.__init__ checks and keeps it, without it the
\* generator's draw becomes the key
init_iteration(raw_privkey, raw_pubkey, draw) ==
    LET given == raw_pubkey # <<>>
        bad_keys ==
            given /\ ~ValidPoint(PyUpto(raw_pubkey, 32), PyFrom(raw_pubkey, 32))
        privkey == IF given THEN raw_privkey ELSE draw.priv
        pubkey == IF given THEN raw_pubkey ELSE draw.pub
        valid_priv_key == privkey = <<>> \/ PrivFormatOk(privkey)
    IN  IF bad_keys
        THEN KgState("raised", raw_privkey, raw_pubkey, <<>>, <<>>, "Exception")
        ELSE IF privkey # <<>> /\ Len(privkey) # 32
        THEN KgState("loop", raw_privkey, raw_pubkey, privkey, pubkey, "")
        ELSE IF Len(pubkey) = 64 /\ valid_priv_key
        THEN KgState("done", raw_privkey, raw_pubkey, privkey, pubkey, "")
        ELSE IF raw_privkey # <<>> \/ raw_pubkey # <<>>
        THEN KgState("raised", raw_privkey, raw_pubkey, privkey, pubkey, "Exception")
        ELSE KgState("loop", raw_privkey, raw_pubkey, privkey, pubkey, "")

\* ECCx(raw_pubkey, raw_privkey) is called
Construct ==
    /\ kg.pc \in {"idle", "done", "raised"}
    /\ \E raw_privkey \in ArgPrivs, raw_pubkey \in ArgPubs :
        kg' = init_arguments(raw_privkey, raw_pubkey)
    /\ UNCHANGED <<wire, sent, dec, kdf, sig>>

\* the constructor runs one pass of its loop
LoopIteration ==
    /\ kg.pc = "loop"
    /\ \E draw \in GenDraws :
        kg' = init_iteration(kg.raw_privkey, kg.raw_pubkey, draw)
    /\ UNCHANGED <<wire, sent, dec, kdf, sig>>

---------------------------------------------------------------------------
(* The inputs of the ECIES calls *)

\* private scalars of the recipients and of the keys ephem = ECCx() draws
RecipientScalars == {5, 9}
EphemScalars == {7, 11}

\* the values Cipher.gen_IV draws from
IVs == {Zeros(16), [i \in 1..16 |-> (17 * i) % 256]}

\* the values of shared_mac_data
MacDatas == {<<>>, <<1>>}

PlainBytes == {0, 165}

RECURSIVE SeqsUpTo(_, _)
SeqsUpTo(S, n) ==
    IF n = 0 THEN {<<>>}
    ELSE LET shorter == SeqsUpTo(S, n - 1)
         IN  shorter \cup {Append(q, b) : q \in {t \in shorter : Len(t) = n - 1}, b \in S}

Plaintexts == SeqsUpTo(PlainBytes, MaxPlainLen)

\* the 0-based positions of a message where a bit is flipped: the header
\* byte, the last byte of each coordinate of the ephemeral public key, and
\* every byte of the IV, of the ciphertext and of the tag
FlipPositions(msg) == {0, 32, 64} \cup (65..(Len(msg) - 1))

\* the lengths a message is cut to
TruncLens == {0, 1, 20, 32, 33, 64, 65, 80, 81, 96, 97, 112}

\* the bodies (between public key and tag) of the short messages a sender
\* who knows the recipient's public key can authenticate
ForgedBodies == {<<>>, <<9>>, [i \in 1..15 |-> i]}

\* such a message: header, the sender's public key, body, tag over the body
Forge(sender_priv, raw_pubkey, body, shared_mac_data) ==
    LET ecdh == raw_get_ecdh_key(sender_priv, PyUpto(raw_pubkey, 32),
                                 PyFrom(raw_pubkey, 32))
        key == eciesKDF(ecdh.key, 32)
        key_mac == sha256(PyFrom(key, 16))
    IN  <<4>> \o privtopub(sender_priv) \o body
            \o hmac_sha256(key_mac, body \o shared_mac_data)

NoSent == [p |-> <<>>, rcpt |-> 0, smd |-> <<>>, ephem |-> 0, iv |-> <<>>]

NoOutcome == Outcome("none", <<>>, <<>>, <<>>)

NoDec == [kind |-> "none", pos |-> 0, bit |-> 0, key |-> 0, data |-> <<>>,
          smd |-> <<>>, res |-> NoOutcome]

DecCall(kind, pos, bit, key, data, smd) ==
    [kind |-> kind, pos |-> pos, bit |-> bit, key |-> key, data |-> data,
     smd |-> smd, res |-> ecies_decrypt(Bytes32(key), data, smd)]

---------------------------------------------------------------------------
(* The ECIES calls as actions *)

\* a sender encrypts p to a recipient; the message is then in flight
Encrypt ==
    \E p \in Plaintexts, r \in RecipientScalars, m \in MacDatas,
       e \in EphemScalars, iv \in IVs :
        LET res == ecies_encrypt(p, privtopub(Bytes32(r)), m, Bytes32(e), iv)
        IN  /\ wire = <<>>
            /\ init_iteration(<<>>, <<>>, [priv |-> Bytes32(e),
                                          pub |-> privtopub(Bytes32(e))]).pc = "done"
            /\ res.status = "ok"
            /\ wire' = res.out
            /\ sent' = [p |-> p, rcpt |-> r, smd |-> m, ephem |-> e, iv |-> iv]
            /\ dec' = NoDec
            /\ UNCHANGED <<kdf, sig, kg>>

\* some holder of a private key decrypts the message as it was sent
DecryptIntact ==
    /\ wire # <<>>
    /\ dec.kind = "none"
    /\ \E k \in RecipientScalars, m \in MacDatas :
        dec' = DecCall("intact", 0, 0, k, wire, m)
    /\ UNCHANGED <<wire, sent, kdf, sig, kg>>

\* the recipient decrypts the message with one bit flipped
DecryptFlipped ==
    /\ wire # <<>>
    /\ dec.kind = "none"
    /\ \E pos \in FlipPositions(wire), bit \in 0..7 :
        dec' = DecCall("flipped", pos, bit, sent.rcpt,
                       FlipBit(wire, pos, bit), sent.smd)
    /\ UNCHANGED <<wire, sent, kdf, sig, kg>>

\* the recipient decrypts a prefix of the message
DecryptTruncated ==
    /\ wire # <<>>
    /\ dec.kind = "none"
    /\ \E n \in TruncLens :
        dec' = DecCall("truncated", n, 0, sent.rcpt, PyUpto(wire, n), sent.smd)
    /\ UNCHANGED <<wire, sent, kdf, sig, kg>>

\* the recipient decrypts a short message authenticated by its sender
DecryptForged ==
    /\ wire # <<>>
    /\ dec.kind = "none"
    /\ \E e \in EphemScalars, body \in ForgedBodies :
        dec' = DecCall("forged", Len(body), 0, sent.rcpt,
                       Forge(Bytes32(e), privtopub(Bytes32(sent.rcpt)), body,
                             sent.smd),
                       sent.smd)
    /\ UNCHANGED <<wire, sent, kdf, sig, kg>>

\* the message has been handled: the next one can be sent
NextMessage ==
    /\ dec.kind # "none"
    /\ wire' = <<>>
    /\ sent' = NoSent
    /\ dec' = NoDec
    /\ UNCHANGED <<kdf, sig, kg>>

Init ==
    /\ wire = <<>>
    /\ sent = NoSent
    /\ dec = NoDec
    /\ kdf = NoKdf
    /\ sig = NoSig
    /\ kg = NoKg

NextEcies ==
    \/ Encrypt
    \/ DecryptIntact
    \/ DecryptFlipped
    \/ DecryptForged
    \/ DecryptTruncated
    \/ NextMessage

SpecEcies == Init /\ [][NextEcies]_vars

NextKdf == Kdf

SpecKdf == Init /\ [][NextKdf]_vars

NextSig ==
    \/ EncodeDecode
    \/ Decode
    \/ VerifyFunction
    \/ VerifyMethod

SpecSig == Init /\ [][NextSig]_vars

NextKeygen ==
    \/ Construct
    \/ LoopIteration

SpecKeygen == Init /\ [][NextKeygen]_vars

\* the constructor, once called, keeps running: its loop is never suspended
FairSpecKeygen == SpecKeygen /\ WF_vars(LoopIteration)

---------------------------------------------------------------------------
(* Properties of the ECIES calls *)

\* the keys both sides derive for the message in flight
SentKey ==
    eciesKDF(raw_get_ecdh_key(Bytes32(sent.ephem),
                              PyUpto(privtopub(Bytes32(sent.rcpt)), 32),
                              PyFrom(privtopub(Bytes32(sent.rcpt)), 32)).key, 32)
SentKeyEnc == PyUpto(SentKey, 16)
SentKeyMac == sha256(PyFrom(SentKey, 16))
SentCiphertext == ciphering(SentKeyEnc, sent.iv, sent.p)

\* C1: when the recipient decrypts the message as ecies_encrypt returned it,
\* with the shared_mac_data of the sender, ecies_decrypt raises nothing and
\* returns exactly the plaintext (the empty one included).
RoundTrip ==
    (dec.kind = "intact" /\ dec.key = sent.rcpt /\ dec.smd = sent.smd)
        => (dec.res.status = "ok" /\ dec.res.out = sent.p)

RoundTripReached ==
    /\ dec.kind = "intact" /\ dec.key = sent.rcpt /\ dec.smd = sent.smd
    /\ Len(sent.p) > 0 /\ sent.smd # <<>>
    /\ dec.res.out = sent.p

\* C2: in every ecies_decrypt call the cipher is invoked only after the
\* recomputed tag compared equal to the received one; when the tags differ the
\* call ends with ECIESDecryptionError and the cipher is never invoked.
VerifyThenDecrypt ==
    LET ev == dec.res.events
    IN  /\ \A i \in DOMAIN ev :
            ev[i] = "cipher" => \E j \in 1..(i - 1) : ev[j] = "tags_equal"
        /\ (\E i \in DOMAIN ev : ev[i] = "tags_differ")
            => /\ dec.res.status = "ECIESDecryptionError"
               /\ \A i \in DOMAIN ev : ev[i] # "cipher"

VerifyThenDecryptReached ==
    /\ dec.kind = "intact"
    /\ dec.key # sent.rcpt
    /\ \E i \in DOMAIN dec.res.events : dec.res.events[i] = "tags_differ"
    /\ dec.res.status = "ECIESDecryptionError"

\* C3: a message of ecies_encrypt with one bit flipped in the IV (bytes
\* 65..80), the ciphertext or the tag (the last 32 bytes) makes ecies_decrypt
\* with the recipient's key end with ECIESDecryptionError; no plaintext is
\* returned.
TamperDetected ==
    (dec.kind = "flipped" /\ dec.pos >= 1 + 64)
        => (dec.res.status = "ECIESDecryptionError" /\ dec.res.out = <<>>)

TamperDetectedReached ==
    /\ dec.kind = "flipped"
    /\ dec.pos >= 1 + 64 + 16 /\ dec.pos < Len(wire) - 32
    /\ dec.res.status = "ECIESDecryptionError"

\* C5 as stated: the tag of ecies_encrypt is the HMAC over
\* ephemeral public key || IV || ciphertext || shared_mac_data.
TagBindsEphemeralKey ==
    wire # <<>>
        => PyFrom(wire, -32)
            = hmac_sha256(SentKeyMac,
                          privtopub(Bytes32(sent.ephem)) \o sent.iv
                              \o SentCiphertext \o sent.smd)

\* C5 as amended: the tag of ecies_encrypt, and the tag ecies_decrypt
\* recomputes for the message as sent, is the HMAC over
\* IV || ciphertext || shared_mac_data; the ephemeral public key is not part
\* of the MAC input on either side.
TagCoversIvAndCiphertext ==
    /\ wire # <<>>
        => PyFrom(wire, -32)
            = hmac_sha256(SentKeyMac, sent.iv \o SentCiphertext \o sent.smd)
    /\ (dec.kind = "intact" /\ dec.res.mac_data # <<>>)
        => dec.res.mac_data = sent.iv \o SentCiphertext \o dec.smd

TagCoversIvAndCiphertextReached ==
    /\ dec.kind = "intact" /\ dec.res.status = "ok"
    /\ Len(sent.p) > 0
    /\ dec.res.mac_data = sent.iv \o SentCiphertext \o dec.smd

\* C7 as stated: every call of ecies_decrypt on a message shorter than the
\* 113 bytes of overhead ends with ECIESDecryptionError and with no other
\* kind of error.
SingleDecryptionErrorKind ==
    (dec.kind # "none" /\ Len(dec.data) < ecies_encrypt_overhead_length)
        => dec.res.status = "ECIESDecryptionError"

---------------------------------------------------------------------------
(* Properties of eciesKDF, of the signature calls and of ECCx.__init__ *)

\* C4 as stated: for every secret and every requested length key_len >= 0,
\* eciesKDF returns exactly key_len bytes.
KdfOutputLength ==
    kdf.called => Len(kdf.out) = kdf.key_len

\* C6 as stated: ecdsa_verify and ECCx.verify return a boolean for every
\* public key, signature and digest; no call ends with an exception.
VerifyNeverRaises ==
    sig.op \in {"ecdsa_verify", "ECCx.verify"} => sig.res.status = "ok"

\* C8 as stated: a constructor that has entered its loop leaves it, with a
\* key or with a fatal error, in every execution.
KeyGenerationTerminates ==
    (kg.pc = "loop") ~> (kg.pc \in {"done", "raised"})

DecodeRejectsRecoveryIndicator ==
    (sig.op = "decode" /\ Len(sig.data) = 65 /\ sig.data[65] \notin {0, 1})
        => (sig.res.status # "ok" /\ sig.res.v \in {0, 27, 28})

====
